---- MODULE Spec2Model ----
(***************************************************************************)
(* A model of typst-font-compare: the variant scheduler and collection     *)
(* assembler of src/src/main.rs and the world (file cache, font slots) of  *)
(* src/src/world.rs.                                                       *)
(*                                                                         *)
(* Strings that have to be compared or matched are sequences of tokens     *)
(* ("Noto","Sans","Mono" is the family NotoSansMono); the tokens are       *)
(* ranked in byte order and none is a prefix of another, so the            *)
(* lexicographic order of token sequences is the order of the strings.     *)
(***************************************************************************)
EXTENDS Integers, Sequences, FiniteSets, TLC

VARIABLES
    pc,         \* position of main / render_collection / render_variants
    args,       \* the parsed command line (struct Args)
    book,       \* world.book: the FontInfo of every catalogued face, in push order
    fonts,      \* render_variants: the selected and sorted faces
    err,        \* the error main returns, or None
    library,    \* the styles of main's world and of render_variants' world
    default_styles, \* render_variants: the styles saved before the batch
    handle,     \* per rayon job: the styles of its world clone (map_init), or None
    worker,     \* per rayon job: the index of the face it is compiling, or 0
    task,       \* per face of fonts: how far its task got
    compiled,   \* per face of fonts: the styles its compile ran with, or None
    renders,    \* per face of fonts: the Render its task produced, or None
    completion, \* the indices of the finished tasks, in order of completion
    full,       \* rayon's while_some flag: an item was None
    saved,      \* rayon's Result collector: the error it keeps, or None
    images,     \* what render_variants returns, or None while it runs
    evictions,  \* the number of comemo::evict calls
    document,   \* render_collection: the synthesized source, or None
    root,       \* world.root
    main,       \* world.main
    files,      \* world.files: the cached bytes by FileId
    pdf,        \* main: the bytes render_collection returned, or None
    written,    \* the files main wrote: a sequence of [path, content]
    disk,       \* the file system: what std::fs::read finds at each path
    installed,  \* the directories among data_dir and cache_dir that hold the package
    thr,        \* per thread: its call of World::file, how far it got and its result
    lock,       \* the owner of the mutex of world.files, or None
    reads,      \* per FileId: the reads of storage made for it, and those that succeeded
    replaced,   \* the arguments of replace_files and the cache before it, or None
    steps,      \* the calls and file system changes made so far
    slot,       \* per font slot: the OnceLock cell, None while empty
    decodes,    \* per font slot: how often the decode closure ran
    fthr,       \* per thread: its call of World::font, how far it got and its result
    db,         \* font_db.faces(): the faces found on the system
    world_fonts \* world.fonts: the FontSlot of each face of the book

selVars == <<args, book, fonts>>
batchVars == <<handle, worker, task, compiled, renders, completion, full, saved>>
worldVars == <<root, main, files>>
outVars == <<images, evictions, document, pdf, written>>
styleVars == <<library, default_styles>>
fileVars == <<disk, installed, thr, lock, reads, replaced, steps>>
fontVars == <<slot, decodes, fthr>>
dbVars == <<db, world_fonts>>
sideVars == <<fileVars, fontVars, dbVars>>

\* Option<T>
None == [some |-> FALSE]
Some(v) == [some |-> TRUE, val |-> v]

(***************************************************************************)
(* Bounds                                                                  *)
(***************************************************************************)
\* the longest font book the selection is checked on
MaxFaces == 3

(***************************************************************************)
(* Strings                                                                 *)
(***************************************************************************)
Tokens == {"Arial", "Mono", "Noto", "Sans"}

\* byte order of the tokens
Rank(t) ==
    CASE t = "Arial" -> 1
      [] t = "Mono"  -> 2
      [] t = "Noto"  -> 3
      [] t = "Sans"  -> 4

\* Ordering values, as std::cmp::Ordering
Less == "Less"
Equal == "Equal"
Greater == "Greater"

IntCmp(a, b) == IF a < b THEN Less ELSE IF a > b THEN Greater ELSE Equal

\* Ordering::then
Then(o1, o2) == IF o1 = Equal THEN o2 ELSE o1

\* str::cmp: lexicographic, a proper prefix is smaller
RECURSIVE StrCmp(_, _)
StrCmp(s, t) ==
    IF s = <<>> /\ t = <<>> THEN Equal
    ELSE IF s = <<>> THEN Less
    ELSE IF t = <<>> THEN Greater
    ELSE Then(IntCmp(Rank(Head(s)), Rank(Head(t))), StrCmp(Tail(s), Tail(t)))

(***************************************************************************)
(* Fonts                                                                   *)
(***************************************************************************)
FontStyles == {"Normal", "Italic"}

\* FontStyle's derived order: Normal < Italic < Oblique
StyleRank(s) == CASE s = "Normal" -> 0 [] s = "Italic" -> 1 [] s = "Oblique" -> 2

Arial == <<"Arial">>
NotoSans == <<"Noto", "Sans">>
NotoSansMono == <<"Noto", "Sans", "Mono">>
Families == {Arial, NotoSans, NotoSansMono}

Variant(style, weight, stretch) == [style |-> style, weight |-> weight, stretch |-> stretch]

\* the variants the model's faces come in
Variants == {Variant("Normal", 400, 1000), Variant("Normal", 700, 1000),
             Variant("Italic", 400, 1000), Variant("Normal", 400, 750)}

FontInfo(family, variant) == [family |-> family, variant |-> variant]

\* the faces a font book of the model is made of: Arial in every variant, the
\* Noto families in one
Faces ==
    {FontInfo(Arial, v) : v \in Variants}
        \cup {FontInfo(f, Variant("Normal", 400, 1000)) : f \in {NotoSans, NotoSansMono}}

\* FontVariant's derived Ord: the fields in declaration order style, weight, stretch
VariantCmp(a, b) ==
    Then(IntCmp(StyleRank(a.style), StyleRank(b.style)),
         Then(IntCmp(a.weight, b.weight), IntCmp(a.stretch, b.stretch)))

\* the comparator of fonts.sort_by
FontCmp(a, b) == Then(StrCmp(a.family, b.family), VariantCmp(a.variant, b.variant))

(***************************************************************************)
(* Regular expressions: a literal, optionally anchored at either end.      *)
(***************************************************************************)
Pattern(start, lit, end) == [valid |-> TRUE, start |-> start, lit |-> lit, end |-> end]

\* a pattern string that Regex::new rejects
Invalid == [valid |-> FALSE]

\* ^Noto, Mono$ and Sans
NotoPrefix == Pattern(TRUE, <<"Noto">>, FALSE)
MonoSuffix == Pattern(FALSE, <<"Mono">>, TRUE)
SansAnywhere == Pattern(FALSE, <<"Sans">>, FALSE)

\* Regex::is_match: the literal occurs in the text, at the anchored positions
is_match(re, text) ==
    \E i \in 0..(Len(text) - Len(re.lit)) :
        /\ SubSeq(text, i + 1, i + Len(re.lit)) = re.lit
        /\ re.start => i = 0
        /\ re.end => i + Len(re.lit) = Len(text)

(***************************************************************************)
(* render_variants: selection of the faces                                 *)
(***************************************************************************)
\* FontBook::families: the families of the book, here in order of first
\* appearance, each with its faces in push order
RECURSIVE FamilyNames(_)
FamilyNames(infos) ==
    IF infos = <<>> THEN <<>>
    ELSE LET h == Head(infos).family
         IN <<h>> \o FamilyNames(SelectSeq(Tail(infos), LAMBDA f : f.family # h))

FacesOf(infos, family) == SelectSeq(infos, LAMBDA f : f.family = family)

\* .filter(include_regex.map_or(true, is_match))
IncludeFilter(families, include_regex) ==
    SelectSeq(families, LAMBDA family :
        IF include_regex = None THEN TRUE ELSE is_match(include_regex.val, family))

\* .filter(exclude_regex.map_or(true, !is_match))
ExcludeFilterKeepAll(families, exclude_regex) == families

ExcludeFilter(families, exclude_regex) ==
    SelectSeq(families, LAMBDA family :
        IF exclude_regex = None THEN TRUE ELSE ~is_match(exclude_regex.val, family))

\* fonts.next().into_iter().chain(fonts.take_while(|_| args.variants))
FirstOrAllAlwaysAll(faces, variants) == faces

FirstOrAll(faces, variants) ==
    IF faces = <<>> THEN <<>>
    ELSE IF variants THEN faces
    ELSE <<Head(faces)>>

\* .flat_map(...).collect()
RECURSIVE FlatMap(_, _, _)
FlatMap(infos, families, variants) ==
    IF families = <<>> THEN <<>>
    ELSE FirstOrAll(FacesOf(infos, Head(families)), variants)
            \o FlatMap(infos, Tail(families), variants)

SelectFaces(infos, a) ==
    FlatMap(infos,
            ExcludeFilter(IncludeFilter(FamilyNames(infos), a.include), a.exclude),
            a.variants)

\* slice::sort_by: a stable sort
Unsorted(s) == s

RECURSIVE InsertSorted(_, _)
InsertSorted(sorted, x) ==
    IF sorted = <<>> THEN <<x>>
    ELSE IF FontCmp(x, Head(sorted)) = Less THEN <<x>> \o sorted
    ELSE <<Head(sorted)>> \o InsertSorted(Tail(sorted), x)

RECURSIVE SortBy(_)
SortBy(s) ==
    IF s = <<>> THEN <<>>
    ELSE InsertSorted(SortBy(SubSeq(s, 1, Len(s) - 1)), s[Len(s)])

(***************************************************************************)
(* Results and errors                                                      *)
(***************************************************************************)
Ok(v) == [ok |-> TRUE, val |-> v]
Err(e) == [ok |-> FALSE, err |-> e]

\* eyre!("failed to compile for font {font:?}: {diag:?}")
CompileErrorWithoutFont(font) == [kind |-> "compile", font |-> None]

CompileError(font) == [kind |-> "compile", font |-> font]
\* the png encoder's error, converted by `?`
EncodeError == [kind |-> "encode"]
\* .wrap_err("failed to compile include regex") and its exclude twin
RegexError(which) == [kind |-> "regex", which |-> which]
\* eyre!("failed to compile collection: {diag:?}")
CollectionError == [kind |-> "collection"]
\* the io::Error of std::fs::write
IoError == [kind |-> "io"]

(***************************************************************************)
(* Styles                                                                  *)
(***************************************************************************)
\* the styles of Library::builder().build(), as far as the tool sets them
LibraryDefault ==
    [fallback |-> TRUE, family |-> <<>>, weight |-> 400, stretch |-> 1000,
     style |-> "Normal"]

\* SystemWorld's clone: the new handle gets a copy of the styles; the font
\* slots and the file cache stay the shared ones (the variables slot and files)
WorldClone(styles) == styles

\* the closure of world.library.update in the task: default_styles.clone_into
\* overwrites the current styles, then the font's are set
ApplyVariantAlways(current, base, font, a) ==
    [fallback |-> a.fallback, family |-> font.family, weight |-> font.variant.weight,
     stretch |-> font.variant.stretch, style |-> font.variant.style]

ApplyVariant(current, base, font, a) ==
    LET withFamily == [base EXCEPT !.fallback = a.fallback, !.family = font.family]
    IN IF a.variants
       THEN [withFamily EXCEPT !.weight = font.variant.weight,
                               !.stretch = font.variant.stretch,
                               !.style = font.variant.style]
       ELSE withFamily

(***************************************************************************)
(* Lengths, as exact fractions of a point                                  *)
(***************************************************************************)
\* map_pixels multiplies by 72.0
PtPerInch == 72
\* the template's calc.max(.., 20cm)
MinPageWidthCm == 20
\* the template's #let margin = 1cm
MarginCm == 1

RECURSIVE Gcd(_, _)
Gcd(a, b) == IF b = 0 THEN a ELSE Gcd(b, a % b)

\* the fraction num / den in lowest terms
Rat(num, den) ==
    LET g == IF num = 0 THEN den ELSE Gcd(num, den)
    IN [num |-> num \div g, den |-> den \div g]
RatLeq(a, b) == a.num * b.den <= b.num * a.den
RatEq(a, b) == a.num * b.den = b.num * a.den
RatMax(a, b) == IF RatLeq(a, b) THEN b ELSE a
RatAdd(a, b) == Rat(a.num * b.den + b.num * a.den, a.den * b.den)
Pt(n) == Rat(n, 1)
\* 1cm is 72 / 2.54 pt
Cm(n) == Rat(n * 3600, 127)

\* |x| (x as f32) / args.ppi * 72.0
map_pixels(x, ppi) == Rat(x * PtPerInch, ppi)

\* .map(map_pixels(render.width)).max_by(partial_cmp).unwrap_or(0.0)
RECURSIVE MaxWidth(_, _)
MaxWidth(rs, ppi) ==
    IF rs = <<>> THEN None
    ELSE LET rest == MaxWidth(Tail(rs), ppi)
             here == map_pixels(Head(rs).width, ppi)
         IN IF rest = None THEN Some(here)
            ELSE IF RatLeq(here, rest.val) THEN rest ELSE Some(here)

page_width(rs, ppi) ==
    LET m == MaxWidth(rs, ppi) IN IF m = None THEN Pt(0) ELSE m.val

\* calc.max({page_width}pt, 20cm)
ContentWidthNoMinimum(pw) == pw

ContentWidth(pw) == RatMax(pw, Cm(MinPageWidthCm))

\* width: calc.max({page_width}pt, 20cm) + 2 * margin
PageWidth(pw) == RatAdd(ContentWidth(pw), Cm(2 * MarginCm))

(***************************************************************************)
(* Paths and files                                                         *)
(***************************************************************************)
\* Path::with_extension: the part after the last dot of the file name is
\* replaced; a name without a dot gets the extension appended. A path is the
\* sequence of the dot-separated parts of its file name.
with_extension(path, ext) ==
    IF Len(path) > 1 THEN SubSeq(path, 1, Len(path) - 1) \o ext
    ELSE path \o ext

\* format!("render-{n}.png")
RenderName(n) == "render-" \o ToString(n) \o ".png"

\* VirtualPath::new: "." is dropped, ".." takes back the component before it
\* and stays when there is none
RECURSIVE Normalize(_, _)
Normalize(out, components) ==
    IF components = <<>> THEN out
    ELSE LET c == Head(components)
         IN IF c = "." THEN Normalize(out, Tail(components))
            ELSE IF c = ".." /\ out # <<>> /\ out[Len(out)] # ".."
                 THEN Normalize(SubSeq(out, 1, Len(out) - 1), Tail(components))
            ELSE Normalize(Append(out, c), Tail(components))

VirtualPath(path) == Normalize(<<>>, path)

FileId(package, vpath) == [package |-> package, vpath |-> vpath]

\* HashMap::insert
InsertIfVacant(map, key, value) ==
    [k \in DOMAIN map \cup {key} |-> IF k \in DOMAIN map THEN map[k] ELSE value]

Insert(map, key, value) ==
    [k \in DOMAIN map \cup {key} |-> IF k = key THEN value ELSE map[k]]

\* the virtual root of replace_files
VirtualRoot == "/virtual"
ProjectRoot == "/project"

\* the loop of replace_files over new_files
RECURSIVE InsertFiles(_, _)
InsertFiles(map, new_files) ==
    IF new_files = <<>> THEN map
    ELSE InsertFiles(
            Insert(map, FileId(None, VirtualPath(Head(new_files).path)),
                   Head(new_files).content),
            Tail(new_files))

\* SystemWorld::replace_files: the world's root, main and files afterwards
ReplaceAfterClear(map, text, new_files) ==
    LET file_id == FileId(None, VirtualPath(<<"main.typ">>))
    IN [root |-> VirtualRoot,
        main |-> file_id,
        files |-> InsertFiles(Insert(<<>>, file_id, [text |-> text]), new_files)]

replace_files(map, text, new_files) ==
    LET file_id == FileId(None, VirtualPath(<<"main.typ">>))
    IN [root |-> VirtualRoot,
        main |-> file_id,
        files |-> InsertFiles(Insert(map, file_id, [text |-> text]), new_files)]

(***************************************************************************)
(* render_collection: the synthesized document                             *)
(***************************************************************************)
\* the loop over variants.iter().enumerate(): one #page per render
PagesAllHeadings(rs, n, last_family, ppi) ==
    [k \in 1..(Len(rs) - n) |->
        [first_of_family |-> TRUE,
         family |-> rs[n + k].font.family,
         variant |-> rs[n + k].font.variant,
         width |-> map_pixels(rs[n + k].width, ppi),
         height |-> map_pixels(rs[n + k].height, ppi),
         image |-> RenderName(n + k - 1)]]

RECURSIVE Pages(_, _, _, _)
Pages(rs, n, last_family, ppi) ==
    IF n >= Len(rs) THEN <<>>
    ELSE LET render == rs[n + 1]
             first_of_family == last_family # Some(render.font.family)
         IN <<[first_of_family |-> first_of_family,
               family |-> render.font.family,
               variant |-> render.font.variant,
               width |-> map_pixels(render.width, ppi),
               height |-> map_pixels(render.height, ppi),
               image |-> RenderName(n)]>>
            \o Pages(rs, n + 1, Some(render.font.family), ppi)

Document(rs, ppi) ==
    [page_width |-> page_width(rs, ppi),
     width |-> PageWidth(page_width(rs, ppi)),
     pages |-> Pages(rs, 0, None, ppi)]

\* variants.into_iter().enumerate().map(|(n, render)| (render-{n}.png, render.bytes))
NewFiles(rs) ==
    [k \in 1..Len(rs) |-> [path |-> <<RenderName(k - 1)>>, content |-> rs[k].bytes]]

(***************************************************************************)
(* render_variants: the parallel batch                                     *)
(***************************************************************************)
\* the rayon jobs that run at the same time, each with its own world clone
Workers == {"job1", "job2"}

\* the pixel sizes a render comes out with
Widths == {300}
Heights == {200}

Png(font, width, height) == [png |-> font, w |-> width, h |-> height]

\* rayon's indexed collect: the items in the order of the input
CollectByCompletion(rs, done) ==
    [k \in 1..Len(done) |-> rs[done[k]].val]

Collect(rs, done) ==
    [i \in 1..Len(rs) |-> rs[i].val]

Tasks == 1..Len(fonts)


(***************************************************************************)
(* Actions of a run of main                                                *)
(***************************************************************************)
\* Regex::new on an optional pattern: .map(Regex::new).transpose()
RegexNew(pattern) ==
    IF pattern = None THEN Ok(None)
    ELSE IF pattern.val.valid THEN Ok(pattern)
    ELSE Err("invalid")

\* main returns the error e
Fail(e) ==
    /\ pc' = "failed"
    /\ err' = Some(e)

\* render_collection calls render_variants(world.clone(), args), which compiles
\* the patterns, selects the faces and sorts them (main.rs 155-193)
SelectFonts ==
    /\ pc = "render_variants"
    /\ library' = [library EXCEPT !.local = WorldClone(library.main)]
    /\ default_styles' = WorldClone(library.main)
    /\ IF ~RegexNew(args.include).ok
       THEN Fail(RegexError("include")) /\ UNCHANGED fonts
       ELSE IF ~RegexNew(args.exclude).ok
       THEN Fail(RegexError("exclude")) /\ UNCHANGED fonts
       ELSE /\ fonts' = SortBy(SelectFaces(book, args))
            /\ pc' = "batch"
            /\ UNCHANGED err
    /\ task' = [i \in 1..Len(fonts') |-> "pending"]
    /\ compiled' = [i \in 1..Len(fonts') |-> None]
    /\ renders' = [i \in 1..Len(fonts') |-> None]
    /\ UNCHANGED <<args, book, handle, worker, completion, full, saved>>
    /\ UNCHANGED <<worldVars, outVars>>
    /\ UNCHANGED sideVars

\* the source of the input document, as the compiler reads it through the world
InputSource == [text |-> "input"]

\* a rayon job takes the next face: map_init's world.clone() on its first face,
\* the style update, and the start of typst::compile (main.rs 198-226). The
\* flag is looked at after an item, so a job may still take a face once the
\* flag is raised
StartTask(w, i) ==
    /\ pc = "batch"
    /\ worker[w] = 0
    /\ task[i] = "pending"
    /\ LET current == IF handle[w] = None THEN WorldClone(library.local)
                      ELSE handle[w].val
           styles == ApplyVariant(current, default_styles, fonts[i], args)
       IN /\ handle' = [handle EXCEPT ![w] = Some(styles)]
          /\ compiled' = [compiled EXCEPT ![i] = Some(styles)]
    /\ worker' = [worker EXCEPT ![w] = i]
    /\ task' = [task EXCEPT ![i] = "running"]
    /\ files' = IF main \in DOMAIN files THEN files ELSE Insert(files, main, InputSource)
    /\ UNCHANGED <<pc, err, selVars, renders, completion, full, saved, root, main>>
    /\ UNCHANGED <<outVars, styleVars>>
    /\ UNCHANGED sideVars

\* the task's compile and render succeed (main.rs 226-240); while_some drops
\* the item when an earlier item already was an error
FinishOk(w, width, height) ==
    /\ pc = "batch"
    /\ worker[w] # 0
    /\ LET i == worker[w]
           render == [font |-> fonts[i], bytes |-> Png(fonts[i], width, height),
                      width |-> width, height |-> height]
       IN /\ task' = [task EXCEPT ![i] = IF full THEN "dropped" ELSE "ok"]
          /\ renders' = IF full THEN renders ELSE [renders EXCEPT ![i] = Some(render)]
          /\ completion' = Append(completion, i)
    /\ worker' = [worker EXCEPT ![w] = 0]
    /\ UNCHANGED <<pc, err, selVars, handle, compiled, full, saved>>
    /\ UNCHANGED <<worldVars, outVars, styleVars>>
    /\ UNCHANGED sideVars

\* the task returns the error e: rayon keeps the first error and raises the flag
TaskFails(w, e) ==
    /\ pc = "batch"
    /\ worker[w] # 0
    /\ task' = [task EXCEPT ![worker[w]] = e.kind]
    /\ saved' = IF saved = None THEN Some(e) ELSE saved
    /\ full' = TRUE
    /\ completion' = Append(completion, worker[w])
    /\ worker' = [worker EXCEPT ![w] = 0]
    /\ UNCHANGED <<pc, err, selVars, handle, compiled, renders>>
    /\ UNCHANGED <<worldVars, outVars, styleVars>>
    /\ UNCHANGED sideVars

\* typst::compile fails (main.rs 226-227)
FinishCompileErr(w) ==
    /\ worker[w] # 0
    /\ TaskFails(w, CompileError(fonts[worker[w]]))

\* rendered.encode_png() fails (main.rs 237)
FinishEncodeErr(w) == TaskFails(w, EncodeError)

\* a face no job has started is left out once the flag is raised
SkipTask(i) ==
    /\ pc = "batch"
    /\ task[i] = "pending"
    /\ full
    /\ task' = [task EXCEPT ![i] = "skipped"]
    /\ UNCHANGED <<pc, err, selVars, handle, worker, compiled, renders, completion,
                   full, saved>>
    /\ UNCHANGED <<worldVars, outVars, styleVars>>
    /\ UNCHANGED sideVars

\* what the parallel collect hands back: the kept error, else the renders
BatchResultIgnoringErrors ==
    Ok(LET good == SelectSeq([i \in Tasks |-> i], LAMBDA i : renders[i] # None)
       IN [k \in 1..Len(good) |-> renders[good[k]].val])

BatchResult ==
    IF saved = None THEN Ok(Collect(renders, completion)) ELSE Err(saved.val)

\* comemo::evict(1), counted
NoEvict(count) == count

evict(count) == count + 1

\* the parallel collect returns; render_variants resets its styles, evicts and
\* returns (main.rs 243-252), and on an error render_collection and main
\* return it (main.rs 72, 64)
FinishBatch ==
    /\ pc = "batch"
    /\ \A i \in Tasks : task[i] \notin {"pending", "running"}
    /\ LET result == BatchResult
       IN /\ images' = Some(result)
          /\ IF result.ok
             THEN pc' = "assemble" /\ UNCHANGED err
             ELSE Fail(result.err)
    /\ library' = [library EXCEPT !.local = default_styles]
    /\ evictions' = evict(evictions)
    /\ UNCHANGED <<selVars, batchVars, worldVars, default_styles, document, pdf, written>>
    /\ UNCHANGED sideVars

\* render_collection computes the page width and writes the source
\* (main.rs 74-138)
Assemble ==
    /\ pc = "assemble"
    /\ document' = Some(Document(images.val.val, args.ppi))
    /\ pc' = "replace"
    /\ UNCHANGED <<err, selVars, batchVars, worldVars, styleVars, images, evictions,
                   pdf, written>>
    /\ UNCHANGED sideVars

\* world.replace_files(main, render-{n}.png ...) (main.rs 140-146)
ReplaceFiles ==
    /\ pc = "replace"
    /\ LET w == replace_files(files, document.val, NewFiles(images.val.val))
       IN /\ root' = w.root
          /\ main' = w.main
          /\ files' = w.files
    /\ pc' = "compile"
    /\ UNCHANGED <<err, selVars, batchVars, styleVars, outVars>>
    /\ UNCHANGED sideVars

\* typst_pdf::pdf of the compiled document
Pdf(source) == [pdf |-> source]

\* typst::compile of the collection and the pdf export (main.rs 148-151)
CompileCollection ==
    /\ pc = "compile"
    /\ \/ /\ pdf' = Some(Pdf(files[main]))
          /\ pc' = "write"
          /\ UNCHANGED err
       \/ /\ Fail(CollectionError)
          /\ UNCHANGED pdf
    /\ UNCHANGED <<selVars, batchVars, worldVars, styleVars, images, evictions,
                   document, written>>
    /\ UNCHANGED sideVars

\* the extension of the output file
OutputExtension == <<"variants", "pdf">>

\* let output = args.input.with_extension("variants.pdf") (main.rs 65)
OutputPath(a) == with_extension(a.input, OutputExtension)

\* std::fs::write(output, render) (main.rs 65-67)
WriteOutput ==
    /\ pc = "write"
    /\ \/ /\ written' = Append(written, [path |-> OutputPath(args), content |-> pdf.val])
          /\ pc' = "done"
          /\ UNCHANGED err
       \/ /\ Fail(IoError)
          /\ UNCHANGED written
    /\ UNCHANGED <<selVars, batchVars, worldVars, styleVars, images, evictions,
                   document, pdf>>
    /\ UNCHANGED sideVars

(***************************************************************************)
(* Bounds of the runs                                                      *)
(***************************************************************************)
\* the most faces in the font book of a run
MaxTasks == 3
\* the most calls of World::file and changes of the file system
MaxSteps == 3
\* the most files handed to replace_files
MaxNewFiles == 2

(***************************************************************************)
(* The world: World::file                                                  *)
(***************************************************************************)
Threads == {"t1", "t2"}

\* the package of the model and its directory under data_dir or cache_dir
Package == [namespace |-> "preview", name |-> "pkg", version |-> "0.1.0"]
PackageDir(spec) == <<"typst", "packages", spec.namespace, spec.name, spec.version>>

\* dirs::data_dir() and dirs::cache_dir()
DataDir == "/data"
CacheDir == "/cache"

\* the ids the threads ask for: two project files, a path that leaves the
\* root, and a file of the package
IdImage == FileId(None, VirtualPath(<<"a.png">>))
IdMain == FileId(None, VirtualPath(<<"main.typ">>))
IdOutside == FileId(None, VirtualPath(<<"..", "a.png">>))
IdPackage == FileId(Some(Package), VirtualPath(<<"a.png">>))
FileIds == {IdImage, IdMain, IdOutside, IdPackage}

\* what is at a path of the file system
Missing == [kind |-> "missing"]
Denied == [kind |-> "denied"]
Failing == [kind |-> "failing"]
File(bytes) == [kind |-> "file", bytes |-> bytes]

\* the contents of files on disk
DiskBytes == {[disk |-> "v1"], [disk |-> "v2"]}

\* VirtualPath::resolve: the path under root, or None if it leaves the root
Resolve(vpath, dir) ==
    IF vpath # <<>> /\ vpath[1] = ".." THEN None
    ELSE Some(<<dir>> \o vpath)

\* the paths the model's file system has an entry for
DiskPaths ==
    {<<dir>> \o id.vpath :
        dir \in {ProjectRoot, VirtualRoot, DataDir, CacheDir},
        id \in {IdImage, IdMain}}

\* std::fs::read
fs_read(path) ==
    LET at == disk[path]
    IN IF at.kind = "file" THEN Ok(at.bytes)
       ELSE IF at.kind = "missing" THEN Err("NotFound")
       ELSE IF at.kind = "denied" THEN Err("PermissionDenied")
       ELSE Err("Interrupted")

\* FileError
NotFound(path) == [kind |-> "NotFound", path |-> path]
AccessDenied == [kind |-> "AccessDenied"]
Other(detail) == [kind |-> "Other", detail |-> detail]

\* the closure of map_err: the FileError for an io::ErrorKind
FileErrorAlwaysNotFound(kind, path) == NotFound(path)

FileErrorOf(kind, path) ==
    IF kind = "NotFound" THEN NotFound(path)
    ELSE IF kind = "PermissionDenied" THEN AccessDenied
    ELSE Other(kind)

\* dir.join(&package_dir).exists()
HoldsPackage(dir) == dir \in installed

\* Option::filter with that closure, and Option::or_else
Filter(opt) == IF opt # None /\ HoldsPackage(opt.val) THEN opt ELSE None
OrElse(opt, other) == IF opt # None THEN opt ELSE other

\* data_dir().filter(exists).or_else(cache_dir).filter(exists)
PackageRootCacheFirst ==
    Filter(OrElse(Filter(Some(CacheDir)), Some(DataDir)))

PackageRoot ==
    Filter(OrElse(Filter(Some(DataDir)), Some(CacheDir)))

\* the root a vacant id is resolved against: Err when the package is in
\* neither directory
RootOf(id) ==
    IF id.package = None THEN Ok(root)
    ELSE IF PackageRoot = None THEN Err(NotFound(PackageDir(id.package.val)))
    ELSE Ok(PackageRoot.val)

IdleThread == [st |-> "idle"]

NoReads == [id \in FileIds |-> [tried |-> 0, ok |-> 0]]

\* what the other variables of a file call leave alone
FileFrame ==
    UNCHANGED <<pc, err, selVars, batchVars, outVars, styleVars, fontVars, dbVars>>

\* a thread calls world.file(id) and waits for the mutex
FileCall(t, id) ==
    /\ thr[t].st \in {"idle", "done"}
    /\ steps < MaxSteps
    /\ steps' = steps + 1
    /\ thr' = [thr EXCEPT ![t] = [st |-> "waiting", id |-> id]]
    /\ UNCHANGED <<disk, installed, lock, reads, replaced, worldVars>>
    /\ FileFrame

\* the thread's result of the call; found is what the read met at the path,
\* None if storage was not read, and path is the path that was read
Return(t, result, found) ==
    thr' = [thr EXCEPT ![t] = [st |-> "done", id |-> thr[t].id, result |-> result,
                               read |-> found # None, found |-> found,
                               path |-> IF found # None THEN Some(thr[t].path)
                                        ELSE None]]

\* the owner of the mutex in the arm of a vacant entry: the guard is a
\* temporary of the match's scrutinee and lives to the end of the match
GuardDropped(t) == None

GuardHeld(t) == Some(t)

\* files.lock().entry(id): an occupied entry is returned; for a vacant one the
\* root and the path are worked out, which may fail, and the read follows
\* with the mutex held (world.rs 122-147)
FileLock(t) ==
    /\ thr[t].st = "waiting"
    /\ lock = None
    /\ LET id == thr[t].id
       IN IF id \in DOMAIN files
          THEN Return(t, Ok(files[id]), None) /\ UNCHANGED lock
          ELSE IF ~RootOf(id).ok
          THEN Return(t, Err(RootOf(id).err), None) /\ UNCHANGED lock
          ELSE IF Resolve(id.vpath, RootOf(id).val) = None
          THEN Return(t, Err(AccessDenied), None) /\ UNCHANGED lock
          ELSE /\ thr' = [thr EXCEPT ![t] =
                            [st |-> "reading", id |-> id,
                             path |-> Resolve(id.vpath, RootOf(id).val).val]]
               /\ lock' = GuardHeld(t)
    /\ UNCHANGED <<disk, installed, reads, replaced, steps, worldVars>>
    /\ FileFrame

\* whether a successful read is kept in the cache
InsertNever(map, key, value) == map

InsertRead(map, key, value) == Insert(map, key, value)

\* the cache after a failed read: the `?` returns before entry.insert
MemoizeOnReadError(map, key) == Insert(map, key, [disk |-> "error"])

OnReadError(map, key) == map

\* fs::read(&path), the error mapping, entry.insert, and the release of the
\* mutex at the end of the match (world.rs 148-158)
FileRead(t) ==
    /\ thr[t].st = "reading"
    /\ lock = Some(t)
    /\ LET id == thr[t].id
           path == thr[t].path
           io == fs_read(path)
       IN /\ IF io.ok
             THEN /\ files' = InsertRead(files, id, io.val)
                  /\ Return(t, Ok(io.val), Some(disk[path]))
             ELSE /\ files' = OnReadError(files, id)
                  /\ Return(t, Err(FileErrorOf(io.err, path)), Some(disk[path]))
          /\ reads' = [reads EXCEPT ![id] =
                          [tried |-> @.tried + 1, ok |-> @.ok + (IF io.ok THEN 1 ELSE 0)]]
    /\ lock' = None
    /\ UNCHANGED <<disk, installed, replaced, steps, root, main>>
    /\ FileFrame

\* the file system changes under the program
Touch(path, at) ==
    /\ steps < MaxSteps
    /\ steps' = steps + 1
    /\ disk[path] # at
    /\ disk' = [disk EXCEPT ![path] = at]
    /\ UNCHANGED <<installed, thr, lock, reads, replaced, worldVars, slot, decodes, fthr>>
    /\ UNCHANGED <<pc, err, selVars, batchVars, outVars, styleVars, dbVars>>

\* world.replace_files(text, new_files) by the owner of the world: no call
\* through the world is in progress (&mut self)
ReplaceFilesCall(text, new_files) ==
    /\ replaced = None
    /\ \A t \in Threads : thr[t].st \in {"idle", "done"}
    /\ lock = None
    /\ LET w == replace_files(files, text, new_files)
       IN /\ root' = w.root
          /\ main' = w.main
          /\ files' = w.files
    /\ replaced' = Some([text |-> text, new_files |-> new_files, before |-> files])
    /\ thr' = [t \in Threads |-> IdleThread]
    /\ UNCHANGED <<disk, installed, lock, reads, steps>>
    /\ FileFrame


(***************************************************************************)
(* The world: World::font                                                  *)
(***************************************************************************)
\* the font file of the slot with Source::File
FontPath == <<"/fonts", "a.ttf">>

\* bytes that are no font
Junk == [disk |-> "junk"]

\* the slots of world.fonts: one face read from a file when it is decoded,
\* one face held in memory, and one whose bytes in memory are no font
Slots == 1..3
SlotSource(i) ==
    CASE i = 1 -> [kind |-> "File", path |-> FontPath]
      [] i = 2 -> [kind |-> "Binary", bytes |-> [disk |-> "v1"]]
      [] i = 3 -> [kind |-> "Binary", bytes |-> Junk]

\* Font::new(bytes, index)
FontNew(bytes, index) ==
    IF bytes = Junk THEN None ELSE Some([font |-> bytes, index |-> index])

\* the closure of get_or_init: fs::read(path).ok()? for a file, then Font::new
Decode(i) ==
    LET source == SlotSource(i)
    IN IF source.kind = "File"
       THEN IF fs_read(source.path).ok THEN FontNew(fs_read(source.path).val, i)
            ELSE None
       ELSE FontNew(source.bytes, i)

\* the OnceLock of a slot
Empty == [state |-> "empty"]
Running == [state |-> "running"]
Done(value) == [state |-> "done", value |-> value]

\* OnceLock::get: whether the cell holds a value
NeverInitialized(cell) == FALSE

IsInitialized(cell) == cell.state = "done"

FontFrame ==
    UNCHANGED <<pc, err, selVars, batchVars, outVars, styleVars, worldVars,
                disk, installed, thr, lock, reads, replaced, dbVars>>

\* a thread calls world.font(index)
FontCall(t, index) ==
    /\ fthr[t].st \in {"idle", "done"}
    /\ steps < MaxSteps
    /\ steps' = steps + 1
    /\ fthr' = [fthr EXCEPT ![t] = [st |-> "calling", index |-> index]]
    /\ UNCHANGED <<slot, decodes>>
    /\ FontFrame

\* slot.font.get_or_init: a thread that finds the value takes it, and one
\* that finds no value and no thread at work runs the closure; any other
\* waits (world.rs 162-164, 173)
FontGetOrInit(t) ==
    /\ fthr[t].st = "calling"
    /\ LET index == fthr[t].index
       IN IF IsInitialized(slot[index])
          THEN /\ fthr' = [fthr EXCEPT ![t] =
                             [st |-> "done", index |-> index,
                              result |-> slot[index].value]]
               /\ UNCHANGED slot
          ELSE /\ slot[index].state # "running"
               /\ slot' = [slot EXCEPT ![index] = Running]
               /\ fthr' = [fthr EXCEPT ![t] = [st |-> "decoding", index |-> index]]
    /\ UNCHANGED <<decodes, steps>>
    /\ FontFrame

\* the closure runs and its value is stored (world.rs 164-172)
FontDecode(t) ==
    /\ fthr[t].st = "decoding"
    /\ LET index == fthr[t].index
           value == Decode(index)
       IN /\ slot' = [slot EXCEPT ![index] = Done(value)]
          /\ decodes' = [decodes EXCEPT ![index] = @ + 1]
          /\ fthr' = [fthr EXCEPT ![t] =
                        [st |-> "done", index |-> index, result |-> value]]
    /\ UNCHANGED steps
    /\ FontFrame


(***************************************************************************)
(* SystemWorld::new: the font book and the font slots                      *)
(***************************************************************************)
\* eyre!("failed to load font file")
FontLoadError == [kind |-> "font"]
\* args.input.canonicalize()? and "input file is outside root directory"
InputError == [kind |-> "input"]

\* the data of a face: a font with its info, or bytes FontInfo::new rejects
FontData(info) == [info |-> info]

\* FontInfo::new
FontInfoNew(data) == IF data = Junk THEN None ELSE Some(data.info)

\* font_db.with_face_data(face.id, FontInfo::new): None when the data of the
\* face cannot be loaded
with_face_data(face) ==
    IF face.data = None THEN None ELSE Some(FontInfoNew(face.data.val))

\* the loop over font_db.faces() (world.rs 43-55): bk and fs are the book
\* and the slots so far
RECURSIVE LoadFacesKeepingAll(_, _, _)
LoadFacesKeepingAll(faces, bk, fs) ==
    IF faces = <<>> THEN Ok([book |-> bk, fonts |-> fs])
    ELSE LET face == Head(faces)
             info == with_face_data(face)
             pushed == Append(fs, [index |-> face.index, source |-> face.source])
         IN IF info = None THEN Err(FontLoadError)
            ELSE IF info.val # None
            THEN LoadFacesKeepingAll(Tail(faces), Append(bk, info.val.val), pushed)
            ELSE LoadFacesKeepingAll(Tail(faces), bk, pushed)

RECURSIVE LoadFaces(_, _, _)
LoadFaces(faces, bk, fs) ==
    IF faces = <<>> THEN Ok([book |-> bk, fonts |-> fs])
    ELSE LET face == Head(faces)
             info == with_face_data(face)
         IN IF info = None THEN Err(FontLoadError)
            ELSE IF info.val # None
            THEN LoadFaces(Tail(faces), Append(bk, info.val.val),
                           Append(fs, [index |-> face.index, source |-> face.source]))
            ELSE LoadFaces(Tail(faces), bk, fs)

\* the faces found when every face is a font of the book
Discovered(infos) ==
    [k \in DOMAIN infos |->
        [source |-> k, index |-> 0, data |-> Some(FontData(infos[k]))]]

\* the file name of a path
RECURSIVE FileName(_)
FileName(path) ==
    IF Len(path) = 1 THEN path[1]
    ELSE path[1] \o "." \o FileName(Tail(path))

\* SystemWorld::new (world.rs 34-79): the faces are loaded, then root and
\* main are worked out from the input path
WorldNew ==
    /\ pc = "new"
    /\ LET loaded == LoadFaces(db, <<>>, <<>>)
       IN IF ~loaded.ok
          THEN /\ Fail(loaded.err)
               /\ UNCHANGED <<book, world_fonts, worldVars, library>>
          ELSE /\ book' = loaded.val.book
               /\ world_fonts' = loaded.val.fonts
               /\ \/ /\ root' = ProjectRoot
                     /\ main' = FileId(None, VirtualPath(<<FileName(args.input)>>))
                     /\ files' = <<>>
                     /\ library' = [main |-> LibraryDefault, local |-> LibraryDefault]
                     /\ pc' = "render_variants"
                     /\ UNCHANGED err
                  \/ /\ Fail(InputError)
                     /\ UNCHANGED <<worldVars, library>>
    /\ UNCHANGED <<args, fonts, batchVars, outVars, default_styles, db>>
    /\ UNCHANGED <<fileVars, fontVars>>

(***************************************************************************)
(* The run of main                                                         *)
(***************************************************************************)

\* all sequences over S of length at most n
RECURSIVE SeqsUpTo(_, _)
SeqsUpTo(S, n) ==
    IF n = 0 THEN {<<>>}
    ELSE LET shorter == SeqsUpTo(S, n - 1)
         IN shorter \cup {Append(q, x) : q \in shorter, x \in S}

Inputs == {<<"input", "typ">>, <<"input">>}
Outputs == {None, Some(<<"out", "pdf">>)}

\* the default of --ppi
DefaultPpi == 300

\* the faces in the font book of a run
RunFaces ==
    {FontInfo(Arial, Variant("Italic", 400, 1000)),
     FontInfo(NotoSans, Variant("Normal", 400, 1000))}

\* the command line without options
DefaultArgs ==
    [input |-> <<"input", "typ">>, output |-> None, variants |-> FALSE,
     fallback |-> FALSE, include |-> None, exclude |-> None, ppi |-> DefaultPpi]

\* the command lines that differ in the paths only
PathArgs ==
    {[DefaultArgs EXCEPT !.input = i] : i \in Inputs}
        \cup {[DefaultArgs EXCEPT !.output = o] : o \in Outputs}

\* the command lines of a run: the flags in every combination, or one of the
\* other arguments changed
RunArgs ==
    {[DefaultArgs EXCEPT !.variants = v, !.fallback = f] : v, f \in BOOLEAN}
        \cup {[DefaultArgs EXCEPT !.include = Some(Invalid)],
              [DefaultArgs EXCEPT !.exclude = Some(Invalid)],
              [DefaultArgs EXCEPT !.exclude = Some(SansAnywhere), !.variants = TRUE],
              [DefaultArgs EXCEPT !.ppi = PtPerInch, !.variants = TRUE]}

\* the state main is in once SystemWorld::new has returned (world.rs 34-79)
InitWorld ==
    /\ pc = "render_variants"
    /\ err = None
    /\ fonts = <<>>
    /\ library = [main |-> LibraryDefault, local |-> LibraryDefault]
    /\ default_styles = LibraryDefault
    /\ handle = [w \in Workers |-> None]
    /\ worker = [w \in Workers |-> 0]
    /\ task = <<>>
    /\ compiled = <<>>
    /\ renders = <<>>
    /\ completion = <<>>
    /\ full = FALSE
    /\ saved = None
    /\ images = None
    /\ evictions = 0
    /\ document = None
    /\ root = ProjectRoot
    /\ main = FileId(None, VirtualPath(<<FileName(args.input)>>))
    /\ files = <<>>
    /\ pdf = None
    /\ written = <<>>

\* a file system with the input document, the package's files and a font file
InitialDisk ==
    [p \in DiskPaths \cup {FontPath} |->
        IF p[1] = ProjectRoot \/ p = FontPath THEN File([disk |-> "v1"])
        ELSE IF p[1] = DataDir THEN File([disk |-> "v1"])
        ELSE IF p[1] = CacheDir THEN File([disk |-> "v2"])
        ELSE Missing]

\* no thread has called World::file
QuietFiles ==
    /\ thr = [t \in Threads |-> IdleThread]
    /\ lock = None
    /\ reads = NoReads
    /\ replaced = None
    /\ steps = 0

\* no thread has called World::font; the faces found are those of the book
QuietFonts ==
    /\ slot = [i \in Slots |-> Empty]
    /\ decodes = [i \in Slots |-> 0]
    /\ fthr = [t \in Threads |-> IdleThread]
    /\ db = Discovered(book)
    /\ world_fonts = LoadFaces(db, <<>>, <<>>).val.fonts

QuietWorld ==
    /\ disk = InitialDisk
    /\ installed = {}
    /\ QuietFiles
    /\ QuietFonts

\* the path arguments are tried on the books of at most one face
Init ==
    /\ \/ args \in RunArgs /\ book \in SeqsUpTo(RunFaces, MaxTasks)
       \/ args \in PathArgs /\ book \in SeqsUpTo(RunFaces, 1)
    /\ InitWorld
    /\ QuietWorld

Next ==
    \/ SelectFonts
    \/ \E w \in Workers, i \in Tasks : StartTask(w, i)
    \/ \E w \in Workers, width \in Widths, height \in Heights : FinishOk(w, width, height)
    \/ \E w \in Workers : FinishCompileErr(w)
    \/ \E w \in Workers : FinishEncodeErr(w)
    \/ \E i \in Tasks : SkipTask(i)
    \/ FinishBatch
    \/ Assemble
    \/ ReplaceFiles
    \/ CompileCollection
    \/ WriteOutput

vars == <<pc, err, selVars, batchVars, worldVars, outVars, styleVars, sideVars>>

Spec == Init /\ [][Next]_vars

(***************************************************************************)
(* The selection alone, on every font book and pattern of the bounds       *)
(***************************************************************************)
SelectArgs ==
    {[DefaultArgs EXCEPT !.variants = v, !.include = i, !.exclude = e] :
        v \in BOOLEAN,
        i \in {None, Some(NotoPrefix), Some(Invalid)},
        e \in {None, Some(MonoSuffix), Some(SansAnywhere)}}

InitSelect ==
    /\ args \in SelectArgs
    /\ book \in SeqsUpTo(Faces, MaxFaces)
    /\ InitWorld
    /\ QuietWorld

NextSelect == SelectFonts

SpecSelect == InitSelect /\ [][NextSelect]_vars

Range(s) == {s[i] : i \in DOMAIN s}
Count(s, x) == Cardinality({i \in DOMAIN s : s[i] = x})

\* the families of the font book
BookFamilies == {f.family : f \in Range(book)}
\* the families of the selected faces
SelectedFamilies == {f.family : f \in Range(fonts)}

N400 == Variant("Normal", 400, 1000)
N700 == Variant("Normal", 700, 1000)
I400 == Variant("Italic", 400, 1000)

\* C7: the families that survive the filters are exactly those that match the
\* include pattern (all without one) and do not match the exclude pattern
\* (none dropped without one); a family matching both is dropped. With the
\* families NotoSans, NotoSansMono and Arial, include ^Noto and exclude
\* Mono$, exactly NotoSans survives.
C7_SurvivingFamilies ==
    pc = "batch" =>
        /\ SelectedFamilies =
              {family \in BookFamilies :
                  /\ args.include # None => is_match(args.include.val, family)
                  /\ args.exclude # None => ~is_match(args.exclude.val, family)}
        /\ \A family \in BookFamilies :
              (/\ args.include # None /\ is_match(args.include.val, family)
               /\ args.exclude # None /\ is_match(args.exclude.val, family))
                  => family \notin SelectedFamilies
        /\ (/\ BookFamilies = {NotoSans, NotoSansMono, Arial}
            /\ args.include = Some(NotoPrefix)
            /\ args.exclude = Some(MonoSuffix))
              => SelectedFamilies = {NotoSans}

C7_Witness ==
    /\ pc = "batch"
    /\ BookFamilies = {NotoSans, NotoSansMono, Arial}
    /\ args.include = Some(NotoPrefix)
    /\ args.exclude = Some(MonoSuffix)
    /\ SelectedFamilies = {NotoSans}

\* whether a family of the book passes the two filters
Survives(family) ==
    /\ args.include # None => is_match(args.include.val, family)
    /\ args.exclude # None => ~is_match(args.exclude.val, family)

\* the first face of a family in the book
FirstFace(family) ==
    book[CHOOSE i \in DOMAIN book :
            /\ book[i].family = family
            /\ \A j \in 1..(i - 1) : book[j].family # family]

\* C14: of a family that survives the filters exactly the first face is
\* scheduled without --variants and every face with it; no face of another
\* family is scheduled, and no face of the book is scheduled more often than
\* the book holds it
C14_FirstOrAllFaces ==
    pc = "batch" =>
        /\ \A f \in Range(fonts) : f.family \in BookFamilies /\ Survives(f.family)
        /\ \A f \in Range(fonts) : Count(fonts, f) <= Count(book, f)
        /\ \A family \in BookFamilies :
              Survives(family) =>
                  IF args.variants
                  THEN \A f \in Range(book) :
                          f.family = family => Count(fonts, f) = Count(book, f)
                  ELSE /\ Cardinality({i \in DOMAIN fonts : fonts[i].family = family}) = 1
                       /\ FirstFace(family) \in Range(fonts)

\* Arial has a bold face first and an italic face second, and Noto Sans Mono
\* is filtered out: without --variants only the bold face is scheduled
C14_Witness ==
    /\ pc = "batch"
    /\ ~args.variants
    /\ args.exclude = Some(MonoSuffix)
    /\ book = <<FontInfo(Arial, N700), FontInfo(NotoSansMono, N400), FontInfo(Arial, I400)>>
    /\ fonts = <<FontInfo(Arial, N700)>>

\* the ordering key of a variant as the claim has it, and as FontVariant's
\* derived order has it
WeightStretchStyle(v) == <<v.weight, v.stretch, StyleRank(v.style)>>
StyleWeightStretch(v) == <<StyleRank(v.style), v.weight, v.stretch>>

TripleLeq(x, y) ==
    \/ x[1] < y[1]
    \/ x[1] = y[1] /\ x[2] < y[2]
    \/ x[1] = y[1] /\ x[2] = y[2] /\ x[3] <= y[3]

\* fonts is a permutation of the selected faces
IsPermutationOfSelected ==
    \A x \in Faces : Count(fonts, x) = Count(SelectFaces(book, args), x)

\* C8 as stated: the scheduled faces are a permutation of the selected faces,
\* sorted by family and within a family by (weight, stretch, style)
C8_SortedByWeightFirst ==
    pc = "batch" =>
        /\ IsPermutationOfSelected
        /\ \A i, j \in DOMAIN fonts : i < j =>
              \/ StrCmp(fonts[i].family, fonts[j].family) = Less
              \/ /\ fonts[i].family = fonts[j].family
                 /\ TripleLeq(WeightStretchStyle(fonts[i].variant),
                              WeightStretchStyle(fonts[j].variant))

\* C8, amended: the scheduled faces are a permutation of the selected faces,
\* sorted by family and within a family by (style, weight, stretch); the
\* faces X/400, A/700, A/400 of one style come out as A/400, A/700, X/400
C8_SortedByStyleFirst ==
    pc = "batch" =>
        /\ IsPermutationOfSelected
        /\ \A i, j \in DOMAIN fonts : i < j =>
              \/ StrCmp(fonts[i].family, fonts[j].family) = Less
              \/ /\ fonts[i].family = fonts[j].family
                 /\ TripleLeq(StyleWeightStretch(fonts[i].variant),
                              StyleWeightStretch(fonts[j].variant))
        /\ (/\ book = <<FontInfo(NotoSans, N400), FontInfo(Arial, N700),
                         FontInfo(Arial, N400)>>
            /\ args.variants /\ args.include = None /\ args.exclude = None)
              => fonts = <<FontInfo(Arial, N400), FontInfo(Arial, N700),
                           FontInfo(NotoSans, N400)>>

C8_Witness ==
    /\ pc = "batch"
    /\ book = <<FontInfo(NotoSans, N400), FontInfo(Arial, I400), FontInfo(Arial, N700)>>
    /\ fonts = <<FontInfo(Arial, N700), FontInfo(Arial, I400), FontInfo(NotoSans, N400)>>

(***************************************************************************)
(* Properties of a run                                                     *)
(***************************************************************************)
\* render_variants returned Ok
BatchSucceeded == images # None /\ images.val.ok

\* C1: on success render_variants returns as many renders as there are sorted
\* faces, and the i-th is the one the task of the i-th face produced, in
\* whatever order the tasks finished
C1_RendersInSortedOrder ==
    BatchSucceeded =>
        /\ Len(images.val.val) = Len(fonts)
        /\ \A i \in Tasks :
              /\ images.val.val[i].font = fonts[i]
              /\ images.val.val[i] = renders[i].val

C1_Witness ==
    /\ BatchSucceeded
    /\ Len(fonts) = 2
    /\ fonts[1] # fonts[2]
    /\ completion = <<2, 1>>
    /\ images.val.val[1].font = fonts[1]

\* a task's typst::compile failed
SomeCompileFailed == \E i \in DOMAIN task : task[i] = "compile"
SomeEncodeFailed == \E i \in DOMAIN task : task[i] = "encode"

C10_OutputPathHonoured ==
    pc = "done" =>
        /\ Len(written) = 1
        /\ written[1].path =
              IF args.output # None THEN args.output.val
              ELSE with_extension(args.input, OutputExtension)

\* the tasks that returned an error, and the one that did so first
FailedTasks == {i \in DOMAIN task : task[i] \in {"compile", "encode"}}
FirstFailedAt ==
    CHOOSE k \in DOMAIN completion :
        /\ completion[k] \in FailedTasks
        /\ \A j \in 1..(k - 1) : completion[j] \notin FailedTasks
FirstFailed == completion[FirstFailedAt]

\* what C12 says apart from the content of the error: no task runs twice,
\* only tasks that succeeded before the first failure keep a render, and once
\* a task has failed render_variants returns the error of exactly one failed
\* task, the first, and no renders, and the run ends with that error
BatchAbortsOnFailure ==
    /\ \A i \in DOMAIN task : Count(completion, i) <= 1
    /\ \A i \in DOMAIN task : task[i] \in {"ok", "running"} \/ renders[i] = None
    /\ FailedTasks # {} =>
          /\ full
          /\ saved # None
          /\ saved.val.kind = task[FirstFailed]
          /\ \A k \in DOMAIN completion :
                k > FirstFailedAt => task[completion[k]] # "ok"
          /\ images # None =>
                /\ images.val = Err(saved.val)
                /\ pc = "failed"
                /\ err = saved
                /\ document = None /\ pdf = None /\ written = <<>>
    /\ (images # None /\ images.val.ok) => \A i \in DOMAIN task : task[i] = "ok"

\* C12 as stated: any failed task makes render_variants return one error and
\* no renders, no task is run twice, tasks behind the first failure leave no
\* render, and the error carries the face of the task that produced it
C12_ErrorCarriesVariant ==
    /\ BatchAbortsOnFailure
    /\ (images # None /\ FailedTasks # {}) =>
          /\ "font" \in DOMAIN images.val.err
          /\ images.val.err.font = fonts[FirstFailed]

\* C12, amended: as above, but the error carries the face of the task that
\* produced it only if it is the error of a compile; the error of a failed
\* png encoding carries no face
C12_CompileErrorCarriesVariant ==
    /\ BatchAbortsOnFailure
    /\ (images # None /\ FailedTasks # {}) =>
          IF task[FirstFailed] = "compile"
          THEN images.val.err = [kind |-> "compile", font |-> fonts[FirstFailed]]
          ELSE images.val.err = [kind |-> "encode"]

\* two tasks failed, the compile of the first face first: its error is the
\* one returned, and the third face was never compiled
C12_Witness ==
    /\ pc = "failed"
    /\ task = <<"compile", "encode", "skipped">>
    /\ completion = <<1, 2>>
    /\ fonts[1] # fonts[2]
    /\ err = Some([kind |-> "compile", font |-> fonts[1]])

\* the styles of the world main made, before any override
BaseStyles ==
    [fallback |-> TRUE, family |-> <<>>, weight |-> 400, stretch |-> 1000,
     style |-> "Normal"]

\* the base styles with the fallback flag of the command line and, with
\* --variants, the weight, stretch and style of the face
ListedOverrides(i) ==
    [fallback |-> args.fallback,
     family |-> BaseStyles.family,
     weight |-> IF args.variants THEN fonts[i].variant.weight ELSE BaseStyles.weight,
     stretch |-> IF args.variants THEN fonts[i].variant.stretch ELSE BaseStyles.stretch,
     style |-> IF args.variants THEN fonts[i].variant.style ELSE BaseStyles.style]

\* no override of a task reaches another task or the world of main: a job at
\* work holds the styles of its own task, the styles of main's world stay
\* the base styles, and those of render_variants' world are the base styles
\* again when it returns
OverridesConfined ==
    /\ library.main = BaseStyles
    /\ \A w \in Workers : worker[w] # 0 => handle[w] = compiled[worker[w]]
    /\ images # None => library.local = BaseStyles

\* C13 as stated: the compile of each face runs with the base styles plus
\* only the fallback flag and, with --variants, the weight, stretch and style
\* of that face, whatever the job compiled before, and no override reaches
\* another task or the world of main
C13_OnlyListedOverrides ==
    /\ OverridesConfined
    /\ \A i \in DOMAIN compiled :
          compiled[i] # None => compiled[i].val = ListedOverrides(i)

\* C13, amended: the compile of each face runs with the base styles plus the
\* family of that face and the fallback flag and, with --variants, the
\* weight, stretch and style of that face, whatever the job compiled before,
\* and no override reaches another task or the world of main
C13_OwnOverrideOnly ==
    /\ OverridesConfined
    /\ \A i \in DOMAIN compiled :
          compiled[i] # None =>
              compiled[i].val = [ListedOverrides(i) EXCEPT !.family = fonts[i].family]

\* one job compiled an italic face and then, without --variants, a normal
\* face, while the other job never ran
C13_Witness ==
    /\ ~args.variants
    /\ handle["job2"] = None
    /\ Len(fonts) = 2
    /\ fonts[1].variant.style = "Italic"
    /\ task = <<"ok", "ok">>
    /\ completion = <<1, 2>>
    /\ compiled[2].val.style = "Normal"
    /\ compiled[2].val.family = fonts[2].family

\* C18: the collection has one page for each render, in the order of the
\* renders, and a page has the hidden heading of its family exactly if it is
\* the first page or the family of the render before it is another one; the
\* renders being sorted, each family has exactly one page with the heading,
\* the first page of that family
C18_OneHeadingPerFamily ==
    document # None =>
        LET pages == document.val.pages
            rs == images.val.val
        IN /\ Len(pages) = Len(rs)
           /\ \A k \in DOMAIN pages :
                 /\ pages[k].family = rs[k].font.family
                 /\ pages[k].variant = rs[k].font.variant
                 /\ pages[k].image = "render-" \o ToString(k - 1) \o ".png"
                 /\ pages[k].first_of_family <=>
                       (k = 1 \/ rs[k - 1].font.family # rs[k].font.family)
           /\ \A k \in DOMAIN pages :
                 LET headed == {j \in DOMAIN pages :
                                  /\ pages[j].first_of_family
                                  /\ pages[j].family = pages[k].family}
                 IN /\ Cardinality(headed) = 1
                    /\ \A j \in headed : j <= k
                    /\ \A j \in headed : \A i \in 1..(j - 1) :
                          pages[i].family # pages[k].family

\* two faces of Arial and one of Noto Sans: the heading is on the first and
\* on the third page
C18_Witness ==
    /\ document # None
    /\ Len(document.val.pages) = 3
    /\ document.val.pages[1].family = Arial
    /\ document.val.pages[2].family = Arial
    /\ document.val.pages[3].family = NotoSans
    /\ document.val.pages[3].image = "render-2.png"
    /\ document.val.pages[1].first_of_family
    /\ ~document.val.pages[2].first_of_family
    /\ document.val.pages[3].first_of_family

\* C20: comemo::evict is called exactly once for a batch, when no task is
\* pending or running any more, before the collection is assembled and
\* compiled, and both when the batch succeeded and when a task failed
C20_EvictOncePerBatch ==
    /\ evictions <= 1
    /\ evictions = 1 <=> images # None
    /\ pc = "batch" => evictions = 0
    /\ evictions = 1 =>
          /\ \A i \in DOMAIN task : task[i] \notin {"pending", "running"}
          /\ \A w \in Workers : worker[w] = 0
    /\ (document # None \/ pdf # None \/ written # <<>>) => evictions = 1
    /\ pc \in {"assemble", "replace", "compile", "write", "done"} =>
          evictions = 1 /\ images.val.ok
    /\ (pc = "failed" /\ FailedTasks # {}) => evictions = 1 /\ ~images.val.ok
    /\ (pc = "failed" /\ err.val.kind = "regex") =>
          evictions = 0 /\ task = <<>>

\* the png of the first face could not be encoded and the second face was
\* never compiled: the cache was pruned once before main failed
C20_Witness ==
    /\ pc = "failed"
    /\ task = <<"encode", "skipped">>
    /\ images = Some(Err([kind |-> "encode"]))
    /\ evictions = 1

(***************************************************************************)
(* The collection alone, on every list of render widths of the bounds      *)
(***************************************************************************)
\* the most renders of a collection
MaxRenders == 3

\* the pixel widths of the renders of a collection
PageWidths == {100, 300, 600}

\* main after a batch in which job1 rendered n faces of Arial with the widths ws
AfterBatch(n, ws, ppi) ==
    LET a == [DefaultArgs EXCEPT !.variants = TRUE, !.ppi = ppi]
        face == FontInfo(Arial, N400)
        styles == ApplyVariant(LibraryDefault, LibraryDefault, face, a)
        h == CHOOSE x \in Heights : TRUE
        rs == [i \in 1..n |->
                 [font |-> face, bytes |-> Png(face, ws[i], h), width |-> ws[i],
                  height |-> h]]
    IN /\ pc = "assemble"
       /\ err = None
       /\ args = a
       /\ book = [i \in 1..n |-> face]
       /\ fonts = [i \in 1..n |-> face]
       /\ library = [main |-> LibraryDefault, local |-> LibraryDefault]
       /\ default_styles = LibraryDefault
       /\ handle = [w \in Workers |-> IF w = "job1" /\ n > 0 THEN Some(styles) ELSE None]
       /\ worker = [w \in Workers |-> 0]
       /\ task = [i \in 1..n |-> "ok"]
       /\ compiled = [i \in 1..n |-> Some(styles)]
       /\ renders = [i \in 1..n |-> Some(rs[i])]
       /\ completion = [i \in 1..n |-> i]
       /\ full = FALSE
       /\ saved = None
       /\ images = Some(Ok(rs))
       /\ evictions = 1
       /\ document = None
       /\ root = ProjectRoot
       /\ main = FileId(None, VirtualPath(<<FileName(a.input)>>))
       /\ files = IF n > 0
                  THEN Insert(<<>>, FileId(None, VirtualPath(<<FileName(a.input)>>)),
                              InputSource)
                  ELSE <<>>
       /\ pdf = None
       /\ written = <<>>

InitPage ==
    /\ \E n \in 0..MaxRenders, ppi \in {PtPerInch, DefaultPpi} :
          \E ws \in [1..n -> PageWidths] : AfterBatch(n, ws, ppi)
    /\ QuietWorld

NextPage ==
    \/ Assemble
    \/ ReplaceFiles
    \/ CompileCollection
    \/ WriteOutput

SpecPage == InitPage /\ [][NextPage]_vars

\* the pixel widths of the renders render_variants returned
RenderWidths == {images.val.val[i].width : i \in DOMAIN images.val.val}

\* C9: the content width of the collection's page is the largest of the
\* renders' widths in points (pixels / ppi * 72) or, when that is larger or
\* there is no render, the minimum of 20cm; the page width is the content
\* width plus the margin of 1cm on both sides. Widths 100 and 300 at 300 ppi
\* give a computed width of 72 points.
C9_PageWidth ==
    document # None =>
        LET candidates == {Rat(w * 72, args.ppi) : w \in RenderWidths} \cup {Cm(20)}
        IN /\ \E c \in candidates :
                /\ \A d \in candidates : RatLeq(d, c)
                /\ RatEq(document.val.width, RatAdd(c, RatAdd(Cm(1), Cm(1))))
           /\ \A w \in RenderWidths : RatLeq(Rat(w * 72, args.ppi), document.val.page_width)
           /\ RenderWidths # {} =>
                \E w \in RenderWidths : RatEq(document.val.page_width, Rat(w * 72, args.ppi))
           /\ (RenderWidths = {100, 300} /\ args.ppi = 300)
                => RatEq(document.val.page_width, Pt(72))

\* a collection whose widest render is wider than the minimum, next to a
\* narrower one
C9_Witness ==
    /\ document # None
    /\ args.ppi = 72
    /\ RenderWidths = {100, 600}
    /\ RatEq(document.val.width, RatAdd(Pt(600), Cm(2)))

\* a collection whose renders are all narrower than the minimum
C9_WitnessMinimum ==
    /\ document # None
    /\ args.ppi = 300
    /\ RenderWidths = {100, 300}
    /\ RatEq(document.val.page_width, Pt(72))
    /\ RatEq(document.val.width, Cm(22))

(***************************************************************************)
(* The file cache alone: calls of World::file by two threads while the     *)
(* file system changes                                                     *)
(***************************************************************************)
ProjectImage == <<ProjectRoot>> \o IdImage.vpath

InitFiles ==
    /\ args = DefaultArgs
    /\ book = <<>>
    /\ InitWorld
    /\ disk \in {[InitialDisk EXCEPT ![ProjectImage] = at] :
                    at \in {Missing, File([disk |-> "v1"])}}
    /\ installed \in SUBSET {DataDir, CacheDir}
    /\ QuietFiles
    /\ QuietFonts

NextFiles ==
    \/ \E t \in Threads, id \in FileIds : FileCall(t, id)
    \/ \E t \in Threads : FileLock(t)
    \/ \E t \in Threads : FileRead(t)
    \/ \E at \in {Missing, Denied, Failing} \cup {File(b) : b \in DiskBytes} :
          Touch(ProjectImage, at)

SpecFiles == InitFiles /\ [][NextFiles]_vars

(***************************************************************************)
(* replace_files on a cache that holds earlier reads                       *)
(***************************************************************************)
\* the files handed to replace_files
BytesA == [png |-> "A"]
BytesB == [png |-> "B"]
NewFileChoices ==
    {[path |-> <<"a.png">>, content |-> BytesA],
     [path |-> <<".", "a.png">>, content |-> BytesB],
     [path |-> <<"main.typ">>, content |-> BytesB]}

\* the paths of the ids under the virtual root
VirtualPaths == {<<VirtualRoot>> \o id.vpath : id \in {IdImage, IdMain}}

InitReplace ==
    /\ args = DefaultArgs
    /\ book = <<>>
    /\ InitWorld
    /\ disk \in {[p \in DOMAIN InitialDisk |->
                      IF p \in VirtualPaths THEN at ELSE InitialDisk[p]] :
                    at \in {Missing, File([disk |-> "v2"])}}
    /\ installed = {}
    /\ QuietFiles
    /\ QuietFonts

NextReplace ==
    \/ \E t \in Threads, id \in FileIds : FileCall(t, id)
    \/ \E t \in Threads : FileLock(t)
    \/ \E t \in Threads : FileRead(t)
    \/ \E new_files \in SeqsUpTo(NewFileChoices, MaxNewFiles) :
          ReplaceFilesCall("X", new_files)

SpecReplace == InitReplace /\ [][NextReplace]_vars

(***************************************************************************)
(* The font slots alone: calls of World::font by two threads while the     *)
(* font file changes                                                       *)
(***************************************************************************)
InitFonts ==
    /\ args = DefaultArgs
    /\ book = <<>>
    /\ InitWorld
    /\ disk \in {[InitialDisk EXCEPT ![FontPath] = at] :
                    at \in {Missing, File(Junk), File([disk |-> "v1"])}}
    /\ installed = {}
    /\ QuietFiles
    /\ QuietFonts

NextFonts ==
    \/ \E t \in Threads, index \in Slots : FontCall(t, index)
    \/ \E t \in Threads : FontGetOrInit(t)
    \/ \E t \in Threads : FontDecode(t)
    \/ \E at \in {Missing, File(Junk)} \cup {File(b) : b \in DiskBytes} :
          Touch(FontPath, at)

SpecFonts == InitFonts /\ [][NextFonts]_vars

(***************************************************************************)
(* Properties of the world                                                 *)
(***************************************************************************)
\* the threads whose call of World::file or World::font has returned
Returned == {t \in Threads : thr[t].st = "done"}
FontReturned == {t \in Threads : fthr[t].st = "done"}

\* C3: the decode of a slot runs at most once, whatever the interleaving of
\* the calls of font(index); every caller gets the value the slot holds, so
\* all callers of a slot get the same, and a failed decode is kept as "no
\* font" for all callers without a second decode
C3_DecodeOnce ==
    /\ \A i \in Slots :
          /\ decodes[i] <= 1
          /\ Cardinality({t \in Threads : fthr[t].st = "decoding" /\ fthr[t].index = i}) <= 1
          /\ slot[i].state = "done" <=> decodes[i] = 1
    /\ \A t \in FontReturned :
          /\ slot[fthr[t].index].state = "done"
          /\ fthr[t].result = slot[fthr[t].index].value
    /\ \A t, u \in FontReturned :
          fthr[t].index = fthr[u].index => fthr[t].result = fthr[u].result

\* both threads got "no font" from the one failed decode of the file slot,
\* although the font file is a font by now
C3_Witness ==
    /\ \A t \in Threads : fthr[t] = [st |-> "done", index |-> 1, result |-> None]
    /\ decodes[1] = 1
    /\ disk[FontPath] = File([disk |-> "v1"])

\* the id a path handed to replace_files is stored under
NewFileId(path) == FileId(None, VirtualPath(path))

\* the content of the last of new_files stored under id, or otherwise
LastContent(new_files, id, otherwise) ==
    LET at == {k \in DOMAIN new_files : NewFileId(new_files[k].path) = id}
    IN IF at = {} THEN otherwise
       ELSE new_files[CHOOSE k \in at : \A j \in at : j <= k].content

\* C4 as stated: after replace_files(text, new_files) a call of file(main)
\* returns text and a call of file for the id of each new file returns the
\* bytes given for it, without a read of storage
C4_ReplacedFilesResolve ==
    replaced # None =>
        \A t \in Returned :
            /\ thr[t].id = main =>
                  thr[t].result = Ok([text |-> replaced.val.text]) /\ ~thr[t].read
            /\ \A k \in DOMAIN replaced.val.new_files :
                  thr[t].id = NewFileId(replaced.val.new_files[k].path) =>
                      /\ thr[t].result = Ok(replaced.val.new_files[k].content)
                      /\ ~thr[t].read

\* C4, amended: after replace_files(text, new_files) a call of file for the
\* id of a new file returns, without a read of storage, the bytes of the last
\* new file given for that id, and a call of file(main) returns text unless a
\* new file is stored under main's id, whose bytes it then returns
C4_ReplacedFilesResolveLast ==
    replaced # None =>
        /\ root = VirtualRoot
        /\ main = IdMain
        /\ \A t \in Returned :
              LET new_files == replaced.val.new_files
              IN /\ thr[t].id = main =>
                       /\ thr[t].result =
                             Ok(LastContent(new_files, main, [text |-> replaced.val.text]))
                       /\ ~thr[t].read
                 /\ \A k \in DOMAIN new_files :
                       thr[t].id = NewFileId(new_files[k].path) =>
                           /\ thr[t].result =
                                 Ok(LastContent(new_files, thr[t].id, new_files[k].content))
                           /\ ~thr[t].read

\* a.png was read from disk before replace_files("X", a.png -> A) and there
\* is another a.png under the virtual root; afterwards the two threads get
\* "X" and A
C4_Witness ==
    /\ replaced # None
    /\ replaced.val.text = "X"
    /\ replaced.val.new_files = <<[path |-> <<"a.png">>, content |-> BytesA]>>
    /\ reads[IdImage].ok = 1
    /\ disk[<<VirtualRoot>> \o IdImage.vpath] = File([disk |-> "v2"])
    /\ thr["t1"].st = "done" /\ thr["t1"].id = main
    /\ thr["t1"].result = Ok([text |-> "X"])
    /\ thr["t2"].st = "done" /\ thr["t2"].id = IdImage
    /\ thr["t2"].result = Ok(BytesA)

\* C5: a call of file for an id that is not cached and has no package reads
\* the file at the id's path under the root, if that path is under the root,
\* and returns its bytes if it is there and readable, NotFound if it is
\* missing, AccessDenied if permission is denied and Other on any other
\* failure of the read
C5_ReadOutcome ==
    \A t \in Returned :
        thr[t].id.package = None =>
            /\ thr[t].read =>
                  LET path == <<root>> \o thr[t].id.vpath
                      found == thr[t].found.val
                  IN /\ found.kind = "file" => thr[t].result = Ok(found.bytes)
                     /\ found.kind = "missing" =>
                           thr[t].result = Err([kind |-> "NotFound", path |-> path])
                     /\ found.kind = "denied" =>
                           thr[t].result = Err([kind |-> "AccessDenied"])
                     /\ found.kind = "failing" =>
                           ~thr[t].result.ok /\ thr[t].result.err.kind = "Other"
            /\ ~thr[t].read =>
                  \/ thr[t].id \in DOMAIN files /\ thr[t].result = Ok(files[thr[t].id])
                  \/ thr[t].id = IdOutside /\ thr[t].result = Err([kind |-> "AccessDenied"])

\* one thread found the image missing, the other read the main file
C5_Witness ==
    /\ thr["t1"].st = "done" /\ thr["t1"].id = IdImage /\ thr["t1"].read
    /\ thr["t1"].result = Err(NotFound(ProjectImage))
    /\ thr["t2"].st = "done" /\ thr["t2"].id = IdMain /\ thr["t2"].read
    /\ thr["t2"].result = Ok([disk |-> "v1"])

\* C6: storage is read successfully at most once for an id, no thread reads
\* storage for an id that is cached, and a call for a cached id returns the
\* cached bytes whatever the file is by then
C6_CachedNeverReread ==
    /\ \A id \in FileIds : reads[id].ok <= 1
    /\ \A id \in FileIds : reads[id].ok = 1 <=> id \in DOMAIN files
    /\ \A t \in Threads : thr[t].st = "reading" => thr[t].id \notin DOMAIN files
    /\ \A t \in Returned :
          (thr[t].id \in DOMAIN files /\ thr[t].result.ok) =>
              thr[t].result = Ok(files[thr[t].id])

\* the image was read once; since then the file is gone and a second call
\* got the cached bytes without a read
C6_Witness ==
    /\ reads[IdImage] = [tried |-> 1, ok |-> 1]
    /\ disk[ProjectImage] = Missing
    /\ \E t \in Returned :
          /\ thr[t].id = IdImage
          /\ ~thr[t].read
          /\ thr[t].result = Ok([disk |-> "v1"])

\* C11: a call of file for an uncached id with a package reads under the data
\* directory if that holds the package's directory, else under the cache
\* directory if that holds it, and else returns NotFound for the package's
\* directory without a read of storage, without a look under the world's
\* root and without a change of the cache
C11_PackageRoot ==
    /\ \A t \in Threads :
          (thr[t].st = "reading" /\ thr[t].id.package # None) =>
              /\ installed # {}
              /\ thr[t].path =
                    <<IF DataDir \in installed THEN DataDir ELSE CacheDir>>
                        \o thr[t].id.vpath
    /\ \A t \in Returned :
          (thr[t].id.package # None /\ (thr[t].read \/ ~thr[t].result.ok)) =>
              IF DataDir \in installed
              THEN /\ thr[t].read
                   /\ thr[t].path = Some(<<DataDir>> \o thr[t].id.vpath)
                   /\ thr[t].found.val.kind = "file"
                         => thr[t].result = Ok(thr[t].found.val.bytes)
              ELSE IF CacheDir \in installed
              THEN /\ thr[t].read
                   /\ thr[t].path = Some(<<CacheDir>> \o thr[t].id.vpath)
                   /\ thr[t].found.val.kind = "file"
                         => thr[t].result = Ok(thr[t].found.val.bytes)
              ELSE /\ thr[t].result = Err(NotFound(PackageDir(thr[t].id.package.val)))
                   /\ ~thr[t].read
                   /\ reads[thr[t].id].tried = 0
                   /\ thr[t].id \notin DOMAIN files

\* both directories hold the package: the file is read under the data directory
C11_Witness ==
    /\ installed = {DataDir, CacheDir}
    /\ thr["t1"].st = "done" /\ thr["t1"].id = IdPackage /\ thr["t1"].read
    /\ thr["t1"].path = Some(<<DataDir, "a.png">>)
    /\ thr["t1"].result = Ok([disk |-> "v1"])

\* C15 as stated: no thread waits for the mutex of the cache with a
\* different, uncached id while another thread reads its file
C15_NoWaitDuringRead ==
    \A t, u \in Threads :
        ~(/\ thr[t].st = "reading"
          /\ thr[u].st = "waiting"
          /\ thr[u].id # thr[t].id
          /\ thr[u].id \notin DOMAIN files)

\* C15, amended: the mutex of the cache is held from the lookup to the end
\* of the read, so a thread reads its file only as the owner of the mutex, at
\* most one thread reads at a time, and a thread that waits for the mutex,
\* whatever its id, cannot go on while another thread reads
C15_LockHeldDuringRead ==
    /\ \A t \in Threads : thr[t].st = "reading" <=> lock = Some(t)
    /\ Cardinality({t \in Threads : thr[t].st = "reading"}) <= 1
    /\ \A t, u \in Threads :
          (thr[t].st = "reading" /\ thr[u].st = "waiting") => ~ENABLED FileLock(u)

\* one thread reads a.png while the other waits with main.typ, which is not
\* cached either
C15_Witness ==
    /\ thr["t1"].st = "reading" /\ thr["t1"].id = IdImage
    /\ thr["t2"].st = "waiting" /\ thr["t2"].id = IdMain
    /\ IdMain \notin DOMAIN files
    /\ lock = Some("t1")

\* the ids replace_files stored something under
ReplacedIds ==
    {main} \cup {NewFileId(replaced.val.new_files[k].path) :
                    k \in DOMAIN replaced.val.new_files}

Returns(t) == thr[t].st # "done" /\ thr'[t].st = "done"

\* C17: a call of file that returns an error, whichever, leaves the cache as
\* it was, and the cache changes only by the insert of the bytes a call has
\* read and returns; so an id whose call failed is not cached and a later
\* call for it reads storage again
C17_OnlySuccessPopulates ==
    [][/\ \A t \in Threads :
            (Returns(t) /\ ~thr'[t].result.ok) => files' = files
       /\ files' # files =>
            \E t \in Threads :
                /\ Returns(t)
                /\ thr'[t].read
                /\ thr'[t].result.ok
                /\ thr[t].id \notin DOMAIN files
                /\ files' = Insert(files, thr[t].id, thr'[t].result.val)]_vars

\* the first call for a.png found no file and the second, after the file had
\* appeared, read it and returned its bytes
C17_Witness ==
    /\ reads[IdImage] = [tried |-> 2, ok |-> 1]
    /\ \E t \in Returned :
          /\ thr[t].id = IdImage
          /\ thr[t].read
          /\ thr[t].result = Ok([disk |-> "v1"])
    /\ files[IdImage] = [disk |-> "v1"]

(***************************************************************************)
(* SystemWorld::new alone, on every list of faces of the bounds            *)
(***************************************************************************)
\* the most faces font_db finds
MaxDiscovered == 3

\* what the data of a found face can be: not loadable, no font, or a font
FaceData ==
    {None, Some(Junk), Some(FontData(FontInfo(Arial, N400))),
     Some(FontData(FontInfo(NotoSans, N400)))}

InitNew ==
    /\ pc = "new"
    /\ err = None
    /\ args = DefaultArgs
    /\ \E n \in 0..MaxDiscovered : \E data \in [1..n -> FaceData] :
          db = [k \in 1..n |-> [source |-> k, index |-> 0, data |-> data[k]]]
    /\ book = <<>>
    /\ world_fonts = <<>>
    /\ fonts = <<>>
    /\ library = [main |-> LibraryDefault, local |-> LibraryDefault]
    /\ default_styles = LibraryDefault
    /\ handle = [w \in Workers |-> None]
    /\ worker = [w \in Workers |-> 0]
    /\ task = <<>> /\ compiled = <<>> /\ renders = <<>> /\ completion = <<>>
    /\ full = FALSE
    /\ saved = None
    /\ images = None
    /\ evictions = 0
    /\ document = None
    /\ root = ProjectRoot
    /\ main = FileId(None, VirtualPath(<<FileName(args.input)>>))
    /\ files = <<>>
    /\ pdf = None
    /\ written = <<>>
    /\ disk = InitialDisk
    /\ installed = {}
    /\ QuietFiles
    /\ slot = [i \in Slots |-> Empty]
    /\ decodes = [i \in Slots |-> 0]
    /\ fthr = [t \in Threads |-> IdleThread]

NextNew == WorldNew

SpecNew == InitNew /\ [][NextNew]_vars

\* the found faces whose data loads and holds a font, in order
FacesWithInfo ==
    SelectSeq(db, LAMBDA face : face.data # None /\ face.data.val # Junk)

\* the book and the slots hold exactly the faces whose info was extracted,
\* the slot of a face at the index of its info
CatalogOfFacesWithInfo ==
    /\ Len(book) = Len(FacesWithInfo)
    /\ Len(world_fonts) = Len(book)
    /\ \A k \in DOMAIN book :
          /\ book[k] = FacesWithInfo[k].data.val.info
          /\ world_fonts[k] = [index |-> FacesWithInfo[k].index,
                                source |-> FacesWithInfo[k].source]

\* C19 as stated: whatever faces yield no info, SystemWorld::new raises no
\* error over a face, and the book and the slots hold exactly the faces whose
\* info was extracted
C19_NoFontError ==
    pc # "new" =>
        /\ err # Some([kind |-> "font"])
        /\ pc = "render_variants" => CatalogOfFacesWithInfo

\* C19, amended: a face whose data loads but holds no font info is left out
\* without an error, and the book and the slots hold exactly the faces whose
\* info was extracted; a face whose data cannot be loaded makes
\* SystemWorld::new fail
C19_SkipsFacesWithoutInfo ==
    pc # "new" =>
        IF \E k \in DOMAIN db : db[k].data = None
        THEN pc = "failed" /\ err = Some([kind |-> "font"]) /\ book = <<>>
        ELSE /\ err # Some([kind |-> "font"])
             /\ pc = "render_variants" => CatalogOfFacesWithInfo

\* the second of three faces holds no font: the world is made with the
\* first and the third
C19_Witness ==
    /\ pc = "render_variants"
    /\ Len(db) = 3
    /\ db[2].data = Some(Junk)
    /\ book = <<FontInfo(Arial, N400), FontInfo(NotoSans, N400)>>
    /\ world_fonts = <<[index |-> 0, source |-> 1], [index |-> 0, source |-> 3]>>

====
